---- MODULE Spec2Model ----
(***************************************************************************)
(* scrape.py: scrape_hamrobazar drives one browser session through a       *)
(* search, a bounded scroll loop and an extraction loop, then writes the   *)
(* collected columns to a CSV file.                                        *)
(*                                                                         *)
(* The browser and the site are the environment: what a command returns    *)
(* (a page height, the number of listing cards, whether a sub-element of a *)
(* card exists, whether a command raises) is chosen nondeterministically.  *)
(* Python values are records [type, val] so that None and "" differ.       *)
(***************************************************************************)
EXTENDS Integers, Sequences, FiniteSets, TLC

(* ---- bounds of the environment ---- *)
MaxCards == 2          \* most listing cards a results page shows
MaxHeight == 2         \* page heights are 1..MaxHeight

(* ---- program constants ---- *)
MaxScroll == 20                          \* range(20)
DefaultQuery == "samsung mobile"         \* default of the parameter search_query
MainQuery == "samsung mobile"            \* the argument __main__ passes
OtherQuery == "iphone"                   \* some other query an invocation may name

(* ---- Python values ---- *)
Str(s) == [type |-> "str", val |-> s]
None == [type |-> "NoneType", val |-> ""]

Heights == 1..MaxHeight

VARIABLES
    pc,            \* the statement the routine is at
    entry,         \* "script": run as __main__;  "call": scrape_hamrobazar called by an importer
    args,          \* the arguments of the invocation: <<>> or <<query>>
    search_query,  \* the parameter of scrape_hamrobazar
    dataDir,       \* whether the directory "data" exists
    session,       \* the browser session: "none", "open", "closed"
    opens,         \* sessions opened so far
    closes,        \* sessions closed so far
    lateCmds,      \* browser commands issued to a session that is not open
    typed,         \* text in the site's search box
    last_height,   \* local of the scroll loop
    i,             \* loop variable of range(20); -1 before the loop
    scrolls,       \* scroll commands issued
    measured,      \* the height the page reported last
    firstStable,   \* the first scroll after which the reported height equalled the one before; 0 if none
    site,          \* what the site can show: [heights, listings]
    product_cards, \* the handles find_elements returned
    idx,           \* cards the extraction loop has handled
    dom,           \* the content of each handled card, as the page held it
    titles, prices, locations, descriptions, links,
    csv,           \* the output file
    crashedAt,     \* the statement whose exception ended the run, "" if none
    events         \* the kinds of step taken so far

vars == <<pc, entry, args, search_query, dataDir, session, opens, closes, lateCmds,
          typed, last_height, i, scrolls, measured, firstStable, site, product_cards,
          idx, dom, titles, prices, locations, descriptions, links, csv, crashedAt,
          events>>

browserVars == <<session, opens, closes>>
scrollVars == <<last_height, i, scrolls, measured, firstStable>>
columnVars == <<titles, prices, locations, descriptions, links>>
extractVars == <<product_cards, idx, dom>>
callVars == <<entry, args, site>>

NoFile == [exists |-> FALSE, header |-> <<>>, rows |-> <<>>]

(***************************************************************************)
(* The environments explored.  A page whose height may change after every  *)
(* scroll is paired with every invocation and at most one listing; a page  *)
(* of fixed height is paired with the whole range of listings.             *)
(***************************************************************************)
Invocations ==
    {[entry |-> "script", args |-> <<>>], [entry |-> "script", args |-> <<OtherQuery>>],
     [entry |-> "call", args |-> <<>>], [entry |-> "call", args |-> <<OtherQuery>>],
     [entry |-> "call", args |-> <<DefaultQuery>>]}

Sites ==
    {[inv |-> v, heights |-> Heights, listings |-> {0, 1}] : v \in Invocations}
    \cup {[inv |-> [entry |-> "script", args |-> <<>>], heights |-> {1},
           listings |-> 0..MaxCards]}

Init ==
    \E s \in Sites :
        /\ entry = s.inv.entry
        /\ args = s.inv.args
        /\ site = [heights |-> s.heights, listings |-> s.listings]
        /\ pc = "entry"
        /\ search_query = ""
        /\ dataDir \in BOOLEAN
        /\ session = "none" /\ opens = 0 /\ closes = 0 /\ lateCmds = 0
        /\ typed = ""
        /\ last_height = 0 /\ i = -1 /\ scrolls = 0 /\ measured = 0 /\ firstStable = 0
        /\ product_cards = <<>> /\ idx = 0 /\ dom = <<>>
        /\ titles = <<>> /\ prices = <<>> /\ locations = <<>>
        /\ descriptions = <<>> /\ links = <<>>
        /\ csv = NoFile
        /\ crashedAt = ""
        /\ events = {}

(* n commands sent to the browser: they are late if the session is not open. *)
Late(n) == IF session = "open" THEN lateCmds ELSE lateCmds + n

(***************************************************************************)
(* Invocation.                                                             *)
(***************************************************************************)
(* Mutant: the parameter is ignored and the default searched for. *)
BindIgnoresArgument(a) == DefaultQuery

(* def scrape_hamrobazar(search_query="samsung mobile"): the parameter is   *)
(* the positional argument, or the default when none is passed.            *)
Bind(a) == IF a = <<>> THEN DefaultQuery ELSE a[1]

(* if __name__ == "__main__": scrape_hamrobazar("samsung mobile").          *)
(* The script reads no command-line argument.                              *)
Main ==
    /\ pc = "entry" /\ entry = "script"
    /\ search_query' = Bind(<<MainQuery>>)
    /\ pc' = "makedirs"
    /\ UNCHANGED <<callVars, dataDir, browserVars, lateCmds, typed, scrollVars,
                   extractVars, columnVars, csv, crashedAt, events>>

(* scrape_hamrobazar(...) called from an importing module. *)
Call ==
    /\ pc = "entry" /\ entry = "call"
    /\ search_query' = Bind(args)
    /\ pc' = "makedirs"
    /\ UNCHANGED <<callVars, dataDir, browserVars, lateCmds, typed, scrollVars,
                   extractVars, columnVars, csv, crashedAt, events>>

(* os.makedirs("data", exist_ok=True) *)
MakeDirs ==
    /\ pc = "makedirs"
    /\ dataDir' = TRUE
    /\ pc' = "launch"
    /\ UNCHANGED <<callVars, search_query, browserVars, lateCmds, typed, scrollVars,
                   extractVars, columnVars, csv, crashedAt, events>>

(***************************************************************************)
(* Opening the session and searching.                                      *)
(***************************************************************************)
(* driver = webdriver.Chrome() *)
Launch ==
    /\ pc = "launch"
    /\ session' = "open" /\ opens' = opens + 1
    /\ pc' = "get"
    /\ events' = events \cup {"open"}
    /\ UNCHANGED <<callVars, search_query, dataDir, closes, lateCmds, typed, scrollVars,
                   extractVars, columnVars, csv, crashedAt>>

(* driver.get("https://hamrobazaar.com/"); time.sleep(3) *)
Get ==
    /\ pc = "get"
    /\ lateCmds' = Late(1)
    /\ pc' = "findInput"
    /\ events' = events \cup {"navigate"}
    /\ UNCHANGED <<callVars, search_query, dataDir, browserVars, typed, scrollVars,
                   extractVars, columnVars, csv, crashedAt>>

(* input_search = driver.find_element(By.NAME, "searchValue") *)
FindInput ==
    /\ pc = "findInput"
    /\ lateCmds' = Late(1)
    /\ pc' = "findButton"
    /\ UNCHANGED <<callVars, search_query, dataDir, browserVars, typed, scrollVars,
                   extractVars, columnVars, csv, crashedAt, events>>

(* search_button = driver.find_element(By.CLASS_NAME, "nav-searchbar-input-searchIcon") *)
FindButton ==
    /\ pc = "findButton"
    /\ lateCmds' = Late(1)
    /\ pc' = "sendKeys"
    /\ UNCHANGED <<callVars, search_query, dataDir, browserVars, typed, scrollVars,
                   extractVars, columnVars, csv, crashedAt, events>>

(* input_search.send_keys(search_query) *)
SendKeys ==
    /\ pc = "sendKeys"
    /\ lateCmds' = Late(1)
    /\ typed' = typed \o search_query
    /\ pc' = "click"
    /\ UNCHANGED <<callVars, search_query, dataDir, browserVars, scrollVars,
                   extractVars, columnVars, csv, crashedAt, events>>

(* search_button.click(); time.sleep(5) *)
Click ==
    /\ pc = "click"
    /\ lateCmds' = Late(1)
    /\ pc' = "measure"
    /\ events' = events \cup {"submit"}
    /\ UNCHANGED <<callVars, search_query, dataDir, browserVars, typed, scrollVars,
                   extractVars, columnVars, csv, crashedAt>>

(* The statements before the scroll loop that talk to the browser stand in *)
(* no try block: an exception raised by one of them ends the run there.    *)
Fallible == {"launch", "get", "findInput", "findButton", "sendKeys", "click"}

(* Mutant: the routine writes its (empty) result on the way out. *)
RaiseWritesFile ==
    /\ pc \in Fallible
    /\ pc' = "crashed"
    /\ crashedAt' = pc
    /\ csv' = [exists |-> TRUE, header |-> <<>>, rows |-> <<>>]
    /\ UNCHANGED <<callVars, search_query, dataDir, browserVars, lateCmds, typed,
                   scrollVars, extractVars, columnVars, events>>

Raise ==
    /\ pc \in Fallible
    /\ pc' = "crashed"
    /\ crashedAt' = pc
    /\ UNCHANGED <<callVars, search_query, dataDir, browserVars, lateCmds, typed,
                   scrollVars, extractVars, columnVars, csv, events>>

(***************************************************************************)
(* The scroll loop.                                                        *)
(***************************************************************************)
(* last_height = driver.execute_script("return document.body.scrollHeight") *)
MeasureFirst ==
    /\ pc = "measure"
    /\ \E h \in site.heights :
        /\ last_height' = h
        /\ measured' = h
    /\ lateCmds' = Late(1)
    /\ pc' = "for"
    /\ events' = events \cup {"measure"}
    /\ UNCHANGED <<callVars, search_query, dataDir, browserVars, typed, i, scrolls,
                   firstStable, extractVars, columnVars, csv, crashedAt>>

(* Mutant: while True instead of range(20). *)
ForNextUnbounded ==
    /\ pc = "for"
    /\ i' = i + 1
    /\ pc' = "body"
    /\ UNCHANGED <<callVars, search_query, dataDir, browserVars, lateCmds, typed,
                   last_height, scrolls, measured, firstStable, extractVars, columnVars,
                   csv, crashedAt, events>>

(* for i in range(20): the next index, or the end of the loop *)
ForNext ==
    /\ pc = "for"
    /\ IF i + 1 < MaxScroll
       THEN /\ i' = i + 1
            /\ pc' = "body"
            /\ UNCHANGED events
       ELSE /\ i' = i
            /\ pc' = "lookup"
            /\ events' = events \cup {"loopEnd"}
    /\ UNCHANGED <<callVars, search_query, dataDir, browserVars, lateCmds, typed,
                   last_height, scrolls, measured, firstStable, extractVars, columnVars,
                   csv, crashedAt>>

(* Mutant: last_height is never updated inside the loop. *)
ScrollBodyStaleHeight ==
    /\ pc = "body"
    /\ \E h \in site.heights :
        /\ measured' = h
        /\ firstStable' = IF firstStable = 0 /\ h = measured THEN scrolls + 1 ELSE firstStable
        /\ IF h = last_height
           THEN /\ pc' = "lookup"
                /\ events' = events \cup {"scroll", "loopEnd"}
           ELSE /\ pc' = "for"
                /\ events' = events \cup {"scroll"}
    /\ last_height' = last_height
    /\ scrolls' = scrolls + 1
    /\ lateCmds' = Late(2)
    /\ UNCHANGED <<callVars, search_query, dataDir, browserVars, typed, i,
                   extractVars, columnVars, csv, crashedAt>>

(* One iteration: scrollTo, sleep, measure new_height, break if it equals  *)
(* last_height, otherwise record it.                                       *)
ScrollBody ==
    /\ pc = "body"
    /\ \E new_height \in site.heights :
        /\ measured' = new_height
        /\ firstStable' = IF firstStable = 0 /\ new_height = measured
                          THEN scrolls + 1 ELSE firstStable
        /\ IF new_height = last_height
           THEN /\ pc' = "lookup"
                /\ last_height' = last_height
                /\ events' = events \cup {"scroll", "loopEnd"}
           ELSE /\ pc' = "for"
                /\ last_height' = new_height
                /\ events' = events \cup {"scroll"}
    /\ scrolls' = scrolls + 1
    /\ lateCmds' = Late(2)
    /\ UNCHANGED <<callVars, search_query, dataDir, browserVars, typed, i,
                   extractVars, columnVars, csv, crashedAt>>


(***************************************************************************)
(* Extraction.                                                             *)
(***************************************************************************)
(* What a card can hold: each text sub-element is there or not; the link   *)
(* is not there, there with an href, or there without one.                 *)
CardContents ==
    [title : {"absent", "present"}, price : {"absent", "present"},
     location : {"absent", "present"}, description : {"absent", "present"},
     link : {"absent", "href", "nohref"}]

(* The text the page shows in sub-element f of the k-th card. *)
ElementText(f, k) == f \o ToString(k)

(* WebElement.get_attribute("href"): the attribute's value, None without it. *)
GetAttribute(c, k) == IF c.link = "href" THEN Str(ElementText("link", k)) ELSE None

(* Mutant: a missing sub-element yields a placeholder, not "". *)
TryTextPlaceholder(c, f, k) ==
    IF c[f] = "absent" THEN Str("N/A") ELSE Str(ElementText(f, k))

(* try: x = card.find_element(By.CSS_SELECTOR, ...).text / except: x = "" *)
TryText(c, f, k) ==
    IF c[f] = "absent" THEN Str("") ELSE Str(ElementText(f, k))

(* try: link = card.find_element(...).get_attribute("href") / except: link = "" *)
TryLink(c, k) ==
    IF c.link = "absent" THEN Str("") ELSE GetAttribute(c, k)

(* Mutant: one try block around all five lookups, so the first missing     *)
(* sub-element blanks the fields after it.                                 *)
CardRecordOneTry(c, k) ==
    LET gone(fs) == \E f \in fs : c[f] = "absent"
        val(f, before) == IF gone(before \cup {f}) THEN Str("") ELSE Str(ElementText(f, k))
    IN  [title |-> val("title", {}),
         price |-> val("price", {"title"}),
         location |-> val("location", {"title", "price"}),
         description |-> val("description", {"title", "price", "location"}),
         link |-> IF gone({"title", "price", "location", "description", "link"})
                  THEN Str("") ELSE GetAttribute(c, k)]

(* The five values one iteration of the loop computes for the k-th card. *)
CardRecord(c, k) ==
    [title |-> TryText(c, "title", k),
     price |-> TryText(c, "price", k),
     location |-> TryText(c, "location", k),
     description |-> TryText(c, "description", k),
     link |-> TryLink(c, k)]

(* titles, ... = [], ...; product_cards = driver.find_elements(...) *)
Lookup ==
    /\ pc = "lookup"
    /\ titles' = <<>> /\ prices' = <<>> /\ locations' = <<>>
    /\ descriptions' = <<>> /\ links' = <<>>
    /\ \E n \in site.listings : product_cards' = [k \in 1..n |-> k]
    /\ lateCmds' = Late(1)
    /\ pc' = "extract"
    /\ events' = events \cup {"lookup"}
    /\ UNCHANGED <<callVars, search_query, dataDir, browserVars, typed, scrollVars,
                   idx, dom, csv, crashedAt>>

(* Mutant: a card with a missing sub-element is skipped (continue). *)
ExtractCardSkipsIncomplete ==
    /\ pc = "extract"
    /\ idx < Len(product_cards)
    /\ \E c \in CardContents :
        LET r == CardRecord(c, idx + 1)
            whole == \A f \in DOMAIN c : c[f] # "absent"
        IN  /\ dom' = Append(dom, c)
            /\ titles' = IF whole THEN Append(titles, r.title) ELSE titles
            /\ prices' = IF whole THEN Append(prices, r.price) ELSE prices
            /\ locations' = IF whole THEN Append(locations, r.location) ELSE locations
            /\ descriptions' = IF whole THEN Append(descriptions, r.description)
                               ELSE descriptions
            /\ links' = IF whole THEN Append(links, r.link) ELSE links
    /\ idx' = idx + 1
    /\ lateCmds' = Late(5)
    /\ events' = events \cup {"extract"}
    /\ UNCHANGED <<callVars, search_query, dataDir, browserVars, typed, scrollVars,
                   product_cards, pc, csv, crashedAt>>

(* One iteration of for card in product_cards: five guarded lookups, then  *)
(* five appends.                                                           *)
ExtractCard ==
    /\ pc = "extract"
    /\ idx < Len(product_cards)
    /\ \E c \in CardContents :
        LET r == CardRecord(c, idx + 1)
        IN  /\ dom' = Append(dom, c)
            /\ titles' = Append(titles, r.title)
            /\ prices' = Append(prices, r.price)
            /\ locations' = Append(locations, r.location)
            /\ descriptions' = Append(descriptions, r.description)
            /\ links' = Append(links, r.link)
    /\ idx' = idx + 1
    /\ lateCmds' = Late(5)
    /\ events' = events \cup {"extract"}
    /\ UNCHANGED <<callVars, search_query, dataDir, browserVars, typed, scrollVars,
                   product_cards, pc, csv, crashedAt>>

(***************************************************************************)
(* Closing the session and writing the file.                               *)
(***************************************************************************)
(* Mutant: driver.quit() is left out. *)
QuitForgotten ==
    /\ pc = "extract"
    /\ idx = Len(product_cards)
    /\ pc' = "save"
    /\ UNCHANGED <<callVars, search_query, dataDir, browserVars, lateCmds, typed,
                   scrollVars, extractVars, columnVars, csv, crashedAt, events>>

(* driver.quit(), once the loop over product_cards is exhausted *)
Quit ==
    /\ pc = "extract"
    /\ idx = Len(product_cards)
    /\ lateCmds' = Late(1)
    /\ session' = "closed" /\ closes' = closes + 1
    /\ pc' = "save"
    /\ events' = events \cup {"close"}
    /\ UNCHANGED <<callVars, search_query, dataDir, opens, typed, scrollVars,
                   extractVars, columnVars, csv, crashedAt>>

(* Mutant: the dict lists Price before Title. *)
DataFramePriceFirst(t, p, l, d, k) ==
    [names |-> <<"Price", "Title", "Location", "Description", "Link">>,
     cols |-> <<p, t, l, d, k>>]

(* pd.DataFrame({"Title": titles, ...}): the columns in the dict's order *)
DataFrame(t, p, l, d, k) ==
    [names |-> <<"Title", "Price", "Location", "Description", "Link">>,
     cols |-> <<t, p, l, d, k>>]

(* How to_csv writes one cell: a missing value (None) as the empty field. *)
CsvCell(v) == IF v.type = "NoneType" THEN "" ELSE v.val

(* df.to_csv(path, index=False): the header row, then one row per index *)
ToCsv(df) ==
    LET n == Len(df.cols[1])
    IN  [exists |-> TRUE,
         header |-> df.names,
         rows |-> IF n = 0 THEN <<>>
                  ELSE [r \in 1..n |-> [c \in 1..Len(df.names) |-> CsvCell(df.cols[c][r])]]]

(* df = pd.DataFrame({...}); df.to_csv("data/hamrobazar_results.csv", ...) *)
Save ==
    /\ pc = "save"
    /\ csv' = ToCsv(DataFrame(titles, prices, locations, descriptions, links))
    /\ pc' = "done"
    /\ events' = events \cup {"write"}
    /\ UNCHANGED <<callVars, search_query, dataDir, browserVars, lateCmds, typed,
                   scrollVars, extractVars, columnVars, crashedAt>>

Next ==
    \/ Main \/ Call \/ MakeDirs
    \/ Launch \/ Get \/ FindInput \/ FindButton \/ SendKeys \/ Click
    \/ Raise
    \/ MeasureFirst \/ ForNext \/ ScrollBody
    \/ Lookup \/ ExtractCard \/ Quit \/ Save

Spec == Init /\ [][Next]_vars

(* The routine is one thread that runs each statement it reaches. *)
FairSpec == Spec /\ WF_vars(Next)

(***************************************************************************)
(* Properties.                                                             *)
(***************************************************************************)
Col(f) ==
    CASE f = "title" -> titles
      [] f = "price" -> prices
      [] f = "location" -> locations
      [] f = "description" -> descriptions
      [] f = "link" -> links

Fields == {"title", "price", "location", "description", "link"}

FieldOrder == <<"title", "price", "location", "description", "link">>

(* What the page held in sub-element f of the k-th card, as a CSV field. *)
PageCell(f, k) ==
    IF dom[k][f] \in {"present", "href"} THEN ElementText(f, k) ELSE ""

(* C1: a written output file has the header row Title, Price, Location,   *)
(* Description, Link, in that order, whatever the number of listings.     *)
C1_HeaderIsFiveColumns ==
    csv.exists => csv.header = <<"Title", "Price", "Location", "Description", "Link">>

C1_Witness == pc = "done" /\ csv.exists /\ product_cards = <<>> /\ csv.rows = <<>>

(* C2: the file has as many data rows as find_elements returned listing   *)
(* elements.                                                              *)
C2_RowCountIsListingCount ==
    csv.exists => Len(csv.rows) = Len(product_cards)

C2_Witness ==
    /\ csv.exists
    /\ Len(product_cards) = MaxCards
    /\ \E k \in 1..Len(dom) : \E f \in DOMAIN dom[k] : dom[k][f] = "absent"

(* C3: every handled listing has one record, with "" in each field whose  *)
(* sub-element is missing, and no failed lookup ends the run.             *)
C3_MissingFieldsAreBlank ==
    /\ \A f \in Fields : Len(Col(f)) = idx
    /\ Len(dom) = idx
    /\ \A k \in 1..Len(dom) : \A f \in DOMAIN dom[k] :
          dom[k][f] = "absent" => Col(f)[k] = Str("")
    /\ "lookup" \in events => crashedAt = "" /\ pc # "crashed"

C3_Witness ==
    /\ pc = "done"
    /\ \E k \in 1..Len(dom) : \A f \in DOMAIN dom[k] : dom[k][f] = "absent"

(* C4: the loop issues at most 20 scroll commands and, once entered,      *)
(* is left for the listing lookup, also when the height never settles.    *)
C4_ScrollLoopTerminates ==
    /\ [](scrolls <= MaxScroll)
    /\ (pc = "for") ~> (pc = "lookup")

C4_Witness == pc = "lookup" /\ scrolls = MaxScroll /\ firstStable = 0

(* C5 as stated: the text typed is the invocation's query argument, the   *)
(* default only when there is none.                                       *)
C5_TypedIsInvocationArgument ==
    typed # "" => typed = (IF args = <<>> THEN DefaultQuery ELSE args[1])

(* C5 amended: the text typed is the argument of the call of              *)
(* scrape_hamrobazar, the default when the call passes none; the script   *)
(* always calls it with "samsung mobile", whatever its command line.      *)
C5_TypedIsCallArgument ==
    typed # "" =>
        typed = (IF entry = "script" THEN "samsung mobile"
                 ELSE IF args = <<>> THEN "samsung mobile" ELSE args[1])

C5_Witness == entry = "call" /\ args = <<OtherQuery>> /\ typed = OtherQuery

(* C6: a run that fails at launch, navigation or either search lookup     *)
(* stops there: no scroll, no lookup, no extraction, no file.             *)
C6_EarlyFailureIsFatal ==
    crashedAt \in {"launch", "get", "findInput", "findButton"} =>
        /\ pc = "crashed"
        /\ ~ ENABLED Next
        /\ scrolls = 0
        /\ events \cap {"submit", "measure", "scroll", "loopEnd", "lookup", "extract",
                        "write"} = {}
        /\ product_cards = <<>> /\ dom = <<>>
        /\ ~ csv.exists

C6_Witness == crashedAt = "findButton" /\ session = "open" /\ ~ csv.exists

(* C7: every collected field is a string, never None.                     *)
C7_AllFieldsAreText ==
    \A f \in Fields : \A k \in 1..Len(Col(f)) : Col(f)[k].type = "str"

(* C8: the loop ends at the first scroll after which the measured height  *)
(* equals the one measured before it, or after the 20th; nothing is       *)
(* scrolled after that, and last_height is the latest measurement.        *)
C8_StopsAtFirstStableHeight ==
    /\ pc \in {"for", "body"} => firstStable = 0 /\ last_height = measured
    /\ firstStable # 0 => scrolls = firstStable
    /\ "loopEnd" \in events =>
          scrolls = (IF firstStable # 0 THEN firstStable ELSE MaxScroll)

C8_Witness == "loopEnd" \in events /\ firstStable = 3 /\ scrolls = 3

(* C9: the k-th record and the k-th row hold the fields of the k-th       *)
(* listing, the five columns are equally long after each iteration, and   *)
(* a present sub-element's value is kept whatever else is missing.        *)
C9_RowsFollowPageOrder ==
    /\ \A f \in Fields : Len(Col(f)) = Len(dom)
    /\ \A k \in 1..Len(dom) :
          /\ \A f \in {"title", "price", "location", "description"} :
                dom[k][f] = "present" => Col(f)[k] = Str(ElementText(f, k))
          /\ dom[k].link = "href" => links[k] = Str(ElementText("link", k))
    /\ csv.exists =>
          /\ Len(csv.rows) = Len(dom)
          /\ \A k \in 1..Len(dom) :
                csv.rows[k] = [c \in 1..5 |-> PageCell(FieldOrder[c], k)]

C9_Witness ==
    /\ csv.exists /\ Len(csv.rows) >= 2
    /\ dom[1].title = "absent" /\ dom[1].price = "present" /\ dom[1].link = "href"
    /\ dom[2].title = "present" /\ dom[2].description = "absent"

(* C10: a completed run opened one session and closed it once; the search *)
(* is submitted before any scroll, the lookup follows the end of the      *)
(* loop, nothing is sent to the browser or extracted after the close, and *)
(* the file is written after the close.                                   *)
C10_OneLinearSession ==
    /\ [](/\ opens <= 1 /\ closes <= 1 /\ lateCmds = 0
          /\ pc = "done" => opens = 1 /\ closes = 1 /\ session = "closed"
          /\ "scroll" \in events => "submit" \in events /\ "open" \in events
          /\ "lookup" \in events => "loopEnd" \in events
          /\ "close" \in events => session = "closed"
          /\ "write" \in events => "close" \in events)
    /\ [][/\ "lookup" \in events => scrolls' = scrolls
          /\ session = "closed" =>
                UNCHANGED <<session, lateCmds, scrolls, extractVars, columnVars>>
          /\ csv.exists => UNCHANGED vars]_vars

C10_Witness == pc = "done" /\ scrolls >= 2 /\ idx >= 1 /\ closes = 1

====
